---- MODULE Spec2Model ----
(***************************************************************************)
(* custom_error: the custom_error! macro (src/src/lib.rs) as a generator.  *)
(* An invocation is a token list; the macro's arms match it and transcribe *)
(* an enum, an Error impl (source), From impls and a Display impl, which   *)
(* the compiler then accepts or rejects.  On an accepted type, instances   *)
(* are constructed, rendered (Display::fmt) and asked for their cause      *)
(* (Error::source).                                                        *)
(***************************************************************************)
EXTENDS Integers, Sequences, FiniteSets

VARIABLES pc, input, output, inst, text, cause

vars == <<pc, input, output, inst, text, cause>>

----------------------------------------------------------------------------
(* Bounds of the explored invocations and values. *)

MaxVariants == 2
MaxParams == 2
MaxValue == 2
MaxTrailing == 1
MaxSep == 2

\* The largest u8, a value of the u8 fields the tests declare.
U8Max == 255

----------------------------------------------------------------------------
(* Types and values of fields, and their to_string(). *)

IoError == "io::Error"
OtherError == "fmt::Error"

\* The types that implement std::error::Error + 'static.
ErrorTypes == {IoError, OtherError}

\* The concrete types of the model: all are Debug + Display.
ConcreteTypes == {"u8"} \cup ErrorTypes

\* The types the generic parameters are instantiated with.
TypeArgs == {"u8", IoError}

\* The names of the type parameters, by position.
ParamNames == <<"X", "Y", "Z", "W">>

U8Values == (1..MaxValue) \cup {U8Max}
IoValues == {"InvalidData", "AlreadyExists"}
OtherValues == {"FmtError"}

ValuesOf(ty) ==
    IF ty = "u8" THEN U8Values
    ELSE IF ty = IoError THEN IoValues
    ELSE OtherValues

DigitChar(d) == <<"0", "1", "2", "3", "4", "5", "6", "7", "8", "9">>[d + 1]

RECURSIVE Digits(_)
Digits(n) == IF n < 10 THEN <<DigitChar(n)>>
             ELSE Digits(n \div 10) \o <<DigitChar(n % 10)>>

IoText(v) == IF v = "InvalidData" THEN <<"i", "n", "v">> ELSE <<"e", "x">>

\* value.to_string(): the Display form of a value of concrete type ty.
to_string(ty, v) ==
    IF ty = "u8" THEN Digits(v)
    ELSE IF ty = IoError THEN IoText(v)
    ELSE <<"f", "m", "t">>

----------------------------------------------------------------------------
(* Format strings, as the pieces format_args! reads from them. *)

Lit(s) == [kind |-> "lit", s |-> s, name |-> "", prec |-> -1]
Arg(n) == [kind |-> "arg", s |-> <<>>, name |-> n, prec |-> -1]
ArgPrec(n, p) == [kind |-> "arg", s |-> <<>>, name |-> n, prec |-> p]

Field(n, ty) == [name |-> n, type |-> ty]

----------------------------------------------------------------------------
(* Tokens of an invocation. *)

Tok(t) == [t |-> t, name |-> "", fields |-> <<>>, msg |-> <<>>, params |-> <<>>]
PubTok == Tok("pub")
GroupTok(n) == [Tok("group") EXCEPT !.name = n]
IdentTok(n) == [Tok("ident") EXCEPT !.name = n]
ParamsTok(ps) == [Tok("params") EXCEPT !.params = ps]
CommaTok == Tok("comma")
ClauseTok(n, c) == [Tok("clause") EXCEPT !.name = n, !.fields = c.fields, !.msg = c.msg]

----------------------------------------------------------------------------
(* The matcher of custom_error!. *)

\* PubArm that consumes the marker without handing it on.
PubArm_DropsMarker(toks) ==
    IF toks # <<>> /\ toks[1].t = "pub" THEN Tail(toks) ELSE toks

\* First arm: (pub $($tt:tt)*) => custom_error!{ (pub) $($tt)* }.
PubArm(toks) ==
    IF toks # <<>> /\ toks[1].t = "pub"
    THEN <<GroupTok("pub")>> \o Tail(toks)
    ELSE toks

\* $( ($prefix:tt) )* : the position after the last leading group.
RECURSIVE PrefixEnd(_, _)
PrefixEnd(toks, i) ==
    IF i <= Len(toks) /\ toks[i].t = "group" THEN PrefixEnd(toks, i + 1) ELSE i

\* $( < $($type_param:ident),* > )* : the position after the last parameter list.
RECURSIVE ParamsEnd(_, _)
ParamsEnd(toks, i) ==
    IF i <= Len(toks) /\ toks[i].t = "params" THEN ParamsEnd(toks, i + 1) ELSE i

NoMatch == [ok |-> FALSE, variants |-> <<>>]

\* OnlyCommas without the $(,)* repetition: the list must end at i.
OnlyCommas_None(toks, i) == i > Len(toks)

\* $(,)* : nothing but commas from position i on.
OnlyCommas(toks, i) == \A j \in i..Len(toks) : toks[j].t = "comma"

\* $( variant ),* from a variant at position i on, then $(,)* .
RECURSIVE MatchClauses(_, _)
MatchClauses(toks, i) ==
    IF i > Len(toks) \/ toks[i].t # "clause" THEN NoMatch
    ELSE IF i + 1 <= Len(toks) /\ toks[i + 1].t = "comma"
            /\ i + 2 <= Len(toks) /\ toks[i + 2].t = "clause"
    THEN LET r == MatchClauses(toks, i + 2)
         IN  [ok |-> r.ok, variants |-> <<toks[i]>> \o r.variants]
    ELSE IF OnlyCommas(toks, i + 1) THEN [ok |-> TRUE, variants |-> <<toks[i]>>]
    ELSE NoMatch

\* The variant list and the trailing commas, from position i to the end.
MatchBody(toks, i) ==
    IF OnlyCommas(toks, i) THEN [ok |-> TRUE, variants |-> <<>>]
    ELSE MatchClauses(toks, i)

NoParse == [ok |-> FALSE, prefix |-> <<>>, errtype |-> "", params |-> <<>>,
            variants |-> <<>>]

\* Second arm's matcher: prefix groups, the type's name, parameter lists,
\* variants, trailing commas.
MatchMain(toks) ==
    LET p == PrefixEnd(toks, 1)
        q == ParamsEnd(toks, p + 1)
        body == MatchBody(toks, q)
    IN  IF p > Len(toks) \/ toks[p].t # "ident" \/ ~body.ok THEN NoParse
        ELSE [ok |-> TRUE,
              prefix |-> [k \in 1..(p - 1) |-> toks[k].name],
              errtype |-> toks[p].name,
              params |-> [k \in 1..(q - p - 1) |-> toks[p + k].params],
              variants |-> body.variants]

\* Macro matching of an invocation: the first arm rewrites, the second matches.
Parse(toks) == MatchMain(PubArm(toks))

----------------------------------------------------------------------------
(* The transcriber of custom_error!: the items the second arm emits. *)

RECURSIVE Flatten(_)
Flatten(ss) == IF ss = <<>> THEN <<>> ELSE Head(ss) \o Flatten(Tail(ss))

FieldNames(fields) == [k \in 1..Len(fields) |-> fields[k].name]

\* enum $errtype { $( $field $( { $( $attr_name : $attr_type ),* } )* ),* }
EnumVariants(variants) ==
    [i \in 1..Len(variants) |->
        [name |-> variants[i].name, fields |-> variants[i].fields]]

\* return_if_source!(name, name): a return statement when name is `source`.
return_if_source(attr_name) ==
    IF attr_name = "source" THEN <<attr_name>> ELSE <<>>

\* SourceArm that looks at the first field only.
SourceArm_FirstFieldOnly(fields) ==
    IF fields = <<>> THEN <<>> ELSE return_if_source(fields[1].name)

\* One arm of source(): the names it returns Some(name) for, in statement
\* order, before the final None.
SourceArm(fields) ==
    Flatten([k \in 1..Len(fields) |-> return_if_source(fields[k].name)])

\* The argument tokens of one impl_error_conversion! invocation:
\* $($attr_name, $attr_name, $attr_type,)* $errtype, $field
ConversionArgs(fields, errtype, field) ==
    Flatten([k \in 1..Len(fields) |->
                <<fields[k].name, fields[k].name, fields[k].type>>])
        \o <<errtype, field>>

ConversionArity == 5

\* impl_error_conversion whose first rule accepts further fields after source.
impl_error_conversion_AnySource(args) ==
    IF Len(args) >= ConversionArity /\ args[1] = "source"
    THEN <<[from |-> args[3], errtype |-> args[Len(args) - 1],
            variant |-> args[Len(args)], field |-> "source"]>>
    ELSE <<>>

\* impl_error_conversion!: the first rule matches five arguments starting
\* with `source` and emits an impl From; the second rule emits nothing.
impl_error_conversion(args) ==
    IF Len(args) = ConversionArity /\ args[1] = "source"
    THEN <<[from |-> args[3], errtype |-> args[4], variant |-> args[5],
            field |-> "source"]>>
    ELSE <<>>

\* $( $( impl_error_conversion!{...} )* )* : one invocation per variant that
\* has a brace block (a variant without fields has none).
FromImpls(errtype, variants) ==
    Flatten([i \in 1..Len(variants) |->
        IF variants[i].fields = <<>> THEN <<>>
        ELSE impl_error_conversion(
                 ConversionArgs(variants[i].fields, errtype, variants[i].name))])

\* DisplayFmt whose appended placeholders lack the .0 precision.
DisplayFmt_NoPrecision(msg, fields) ==
    msg \o [k \in 1..Len(fields) |-> Arg(fields[k].name)]

\* concat!($msg $( $( , "{", stringify!($attr_name), ":.0}" )* )*)
DisplayFmt(msg, fields) ==
    msg \o [k \in 1..Len(fields) |-> ArgPrec(fields[k].name, 0)]

\* One arm of fmt(): the format string and the named arguments
\* $attr_name = $attr_name.to_string(), in declaration order.
DisplayArm(variant) ==
    [fmt |-> DisplayFmt(variant.msg, variant.fields),
     args |-> FieldNames(variant.fields)]

NoOutput == [parsed |-> FALSE, ok |-> FALSE, vis |-> <<>>, errtype |-> "",
             params |-> <<>>, variants |-> <<>>, source_arms |-> <<>>,
             from_impls |-> <<>>, display_arms |-> <<>>]

\* The items emitted for a matched invocation (ok is set by the compiler).
Transcribe(p) ==
    [parsed |-> TRUE, ok |-> FALSE,
     vis |-> p.prefix,
     errtype |-> p.errtype,
     params |-> p.params,
     variants |-> EnumVariants(p.variants),
     source_arms |-> [i \in 1..Len(p.variants) |-> SourceArm(p.variants[i].fields)],
     from_impls |-> FromImpls(p.errtype, p.variants),
     display_arms |-> [i \in 1..Len(p.variants) |-> DisplayArm(p.variants[i])]]

----------------------------------------------------------------------------
(* The compiler's verdict on the emitted items. *)

\* The type parameters of the emitted enum.
TypeParams(out) == IF out.params = <<>> THEN {} ELSE
                   {out.params[1][k] : k \in 1..Len(out.params[1])}

\* The type of field `name` of variant i ("" when it has no such field).
FieldType(out, i, name) ==
    LET fs == out.variants[i].fields
        hit == {k \in 1..Len(fs) : fs[k].name = name}
    IN  IF hit = {} THEN "" ELSE fs[CHOOSE k \in hit : \A j \in hit : k <= j].type

\* The enum declaration: at most one generics list, visibility `pub` or none,
\* every field type known, every type parameter used by some field.
EnumOk(out) ==
    /\ Len(out.params) <= 1
    /\ out.vis \in {<<>>, <<"pub">>}
    /\ \A i \in 1..Len(out.variants) : \A k \in 1..Len(out.variants[i].fields) :
          out.variants[i].fields[k].type \in ConcreteTypes \cup TypeParams(out)
    /\ \A tp \in TypeParams(out) :
          \E i \in 1..Len(out.variants) : \E k \in 1..Len(out.variants[i].fields) :
             out.variants[i].fields[k].type = tp

\* source(): `match self` needs an arm, and Some(name) must be a
\* &(dyn Error + 'static).
SourceOk(out) ==
    /\ Len(out.source_arms) >= 1
    /\ \A i \in 1..Len(out.source_arms) :
          \A k \in 1..Len(out.source_arms[i]) :
             FieldType(out, i, out.source_arms[i][k]) \in ErrorTypes

\* FromOk without the check that impls do not overlap.
FromOk_NoCoherence(out) == out.from_impls # <<>> => TypeParams(out) = {}

\* impl From<T> for $errtype: $errtype takes no generics there, and no two
\* impls are for the same T.
FromOk(out) ==
    /\ out.from_impls # <<>> => TypeParams(out) = {}
    /\ \A a, b \in 1..Len(out.from_impls) :
          out.from_impls[a].from = out.from_impls[b].from => a = b

\* DisplayOk that resolves a placeholder against the fields of every variant.
DisplayOk_AnyVariant(out) ==
    LET all == UNION {{out.display_arms[i].args[k] :
                          k \in 1..Len(out.display_arms[i].args)} :
                      i \in 1..Len(out.display_arms)}
    IN  \A i \in 1..Len(out.display_arms) :
           LET arm == out.display_arms[i]
               used == {arm.fmt[k].name : k \in {j \in 1..Len(arm.fmt) : arm.fmt[j].kind = "arg"}}
               given == {arm.args[k] : k \in 1..Len(arm.args)}
           IN  used \subseteq all /\ given \subseteq used

\* write!: every named placeholder of the format string is one of the arm's
\* named arguments, and every named argument is used by the format string.
DisplayOk(out) ==
    \A i \in 1..Len(out.display_arms) :
       LET arm == out.display_arms[i]
           used == {arm.fmt[k].name : k \in {j \in 1..Len(arm.fmt) : arm.fmt[j].kind = "arg"}}
           given == {arm.args[k] : k \in 1..Len(arm.args)}
       IN  used = given

Compile(out) == EnumOk(out) /\ SourceOk(out) /\ FromOk(out) /\ DisplayOk(out)

\* custom_error!{ toks }: the emitted items and whether they compile.
Generate(toks) ==
    LET p == Parse(toks)
    IN  IF ~p.ok THEN NoOutput
        ELSE LET out == Transcribe(p)
             IN  [out EXCEPT !.ok = Compile(out)]

----------------------------------------------------------------------------
(* The generated type at run time: instances, Display::fmt, Error::source. *)

NoInst == [variant |-> 0, targs |-> <<>>, vals |-> <<>>, types |-> <<>>,
           via |-> ""]
NoText == [some |-> FALSE, s |-> <<>>]
NoCause == [queried |-> FALSE, some |-> FALSE, v |-> "", ty |-> ""]

\* The position of parameter tp in the generics list (0 when it is no parameter).
ParamIndex(out, tp) ==
    IF out.params = <<>> THEN 0
    ELSE LET hit == {k \in 1..Len(out.params[1]) : out.params[1][k] = tp}
         IN  IF hit = {} THEN 0 ELSE CHOOSE k \in hit : TRUE

\* A declared field type with the type arguments substituted.
Resolve(out, targs, ty) ==
    IF ParamIndex(out, ty) = 0 THEN ty ELSE targs[ParamIndex(out, ty)]

\* The position of field `name` among the fields of variant i.
FieldIndex(out, i, name) ==
    LET fs == out.variants[i].fields
    IN  CHOOSE k \in 1..Len(fs) : fs[k].name = name /\
                                 \A j \in 1..(k - 1) : fs[j].name # name

RECURSIVE Product(_)
Product(sets) ==
    IF sets = <<>> THEN {<<>>}
    ELSE {<<h>> \o t : h \in Head(sets), t \in Product(Tail(sets))}

\* The resolved field types of variant i under type arguments targs.
InstTypes(out, i, targs) ==
    [k \in 1..Len(out.variants[i].fields) |->
        Resolve(out, targs, out.variants[i].fields[k].type)]

\* The named arguments of write!: $attr_name = $attr_name.to_string(), each
\* name bound by the match pattern to the field of that name.
NamedArgs(out, x) ==
    LET arm == out.display_arms[x.variant]
    IN  [k \in 1..Len(arm.args) |->
            LET f == FieldIndex(out, x.variant, arm.args[k])
            IN  [name |-> arm.args[k], value |-> to_string(x.types[f], x.vals[f])]]

\* The value of the named argument `name`.
ArgLookup(args, name) ==
    args[CHOOSE k \in 1..Len(args) : args[k].name = name].value

\* A string argument under a precision: at most prec characters of it.
Precision(str, prec) ==
    IF prec < 0 \/ prec >= Len(str) THEN str ELSE SubSeq(str, 1, prec)

FormatPiece(piece, args) ==
    IF piece.kind = "lit" THEN piece.s
    ELSE Precision(ArgLookup(args, piece.name), piece.prec)

\* write that takes its arguments by position: the k-th placeholder gets the
\* k-th argument (wrapping around), whatever its name.
write_Positional(fmt, args) ==
    Flatten([k \in 1..Len(fmt) |->
        IF fmt[k].kind = "lit" THEN fmt[k].s
        ELSE LET n == Cardinality({j \in 1..k : fmt[j].kind = "arg"})
             IN  Precision(args[((n - 1) % Len(args)) + 1].value, fmt[k].prec)])

\* write!(formatter, fmt, args): the text written.
write(fmt, args) ==
    Flatten([k \in 1..Len(fmt) |-> FormatPiece(fmt[k], args)])

\* Display::fmt of instance x.
fmt(out, x) == write(out.display_arms[x.variant].fmt, NamedArgs(out, x))

\* Error::source of instance x: the first return of its arm, else None.
source(out, x) ==
    LET arm == out.source_arms[x.variant]
    IN  IF arm = <<>> THEN [NoCause EXCEPT !.queried = TRUE]
        ELSE LET f == FieldIndex(out, x.variant, Head(arm))
             IN  [queried |-> TRUE, some |-> TRUE, v |-> x.vals[f],
                  ty |-> x.types[f]]

\* The position of the variant named n.
VariantIndex(out, n) == CHOOSE i \in 1..Len(out.variants) : out.variants[i].name = n

\* From::from of the k-th impl: $errtype::$field { source }.
from(out, k, v) ==
    [variant |-> VariantIndex(out, out.from_impls[k].variant),
     targs |-> <<>>, vals |-> <<v>>, types |-> <<out.from_impls[k].from>>,
     via |-> "from"]

----------------------------------------------------------------------------
(* The invocations explored. *)

Chars_bad == <<"b", "a", "d">>

\* Variant clauses after the crate's tests and documentation.
Catalog ==
    { [fields |-> <<>>, msg |-> <<Lit(Chars_bad)>>],
      [fields |-> <<Field("x", "u8")>>, msg |-> <<Arg("x"), Lit(<<" ", "t">>)>>],
      [fields |-> <<Field("x", "u8")>>, msg |-> <<>>],
      [fields |-> <<Field("a", "u8"), Field("b", "u8"), Field("c", "u8")>>,
       msg |-> <<Arg("c"), Lit(<<" ">>), Arg("b"), Lit(<<" ">>), Arg("a")>>],
      [fields |-> <<Field("source", IoError)>>, msg |-> <<Lit(<<"i", "o">>)>>],
      [fields |-> <<Field("x", "u8"), Field("source", IoError)>>,
       msg |-> <<Arg("x")>>],
      [fields |-> <<Field("source", IoError), Field("x", "u8")>>,
       msg |-> <<Arg("x"), Lit(<<":">>), Arg("source")>>],
      [fields |-> <<Field("x", "X"), Field("y", "Y")>>,
       msg |-> <<Lit(<<"x", "=">>), Arg("x"), Lit(<<" ", "y", "=">>), Arg("y")>>],
      [fields |-> <<>>, msg |-> <<Arg("x")>>],
      [fields |-> <<Field("source", OtherError)>>, msg |-> <<>>] }

\* The clauses the syntax of an invocation is varied over.
SyntaxCatalog ==
    { [fields |-> <<>>, msg |-> <<Lit(Chars_bad)>>],
      [fields |-> <<Field("x", "u8")>>, msg |-> <<Arg("x"), Lit(<<" ", "t">>)>>],
      [fields |-> <<Field("source", IoError)>>, msg |-> <<Lit(<<"i", "o">>)>>],
      [fields |-> <<Field("x", "u8"), Field("source", IoError)>>,
       msg |-> <<Arg("x")>>],
      [fields |-> <<Field("x", "X"), Field("y", "Y")>>,
       msg |-> <<Lit(<<"x", "=">>), Arg("x"), Lit(<<" ", "y", "=">>), Arg("y")>>] }

VariantNames == <<"A", "B", "C", "D">>

ClauseSeqs(clauses) == UNION {[1..n -> clauses] : n \in 0..MaxVariants}

RECURSIVE Commas(_)
Commas(n) == IF n = 0 THEN <<>> ELSE <<CommaTok>> \o Commas(n - 1)

\* The variant clauses cs, sep commas between two of them, tr commas after.
RECURSIVE Body(_, _, _, _)
Body(cs, i, sep, tr) ==
    IF i > Len(cs) THEN Commas(tr)
    ELSE <<ClauseTok(VariantNames[i], cs[i])>>
         \o (IF i < Len(cs) THEN Commas(sep) ELSE <<>>)
         \o Body(cs, i + 1, sep, tr)

Invocation(pub, np, cs, sep, tr) ==
    (IF pub THEN <<PubTok>> ELSE <<>>)
    \o <<IdentTok("E")>>
    \o (IF np = 0 THEN <<>> ELSE <<ParamsTok(SubSeq(ParamNames, 1, np))>>)
    \o Body(cs, 1, sep, tr)

\* Declarations in plain syntax: private, single separators, no trailing comma.
Invocations ==
    {Invocation(FALSE, np, cs, 1, 0) :
        np \in 0..MaxParams, cs \in ClauseSeqs(Catalog)}

\* The syntax varied: the pub marker, the commas between and after variants.
SyntaxInvocations ==
    {Invocation(pub, np, cs, sep, tr) :
        pub \in BOOLEAN, np \in 0..MaxParams, cs \in ClauseSeqs(SyntaxCatalog),
        sep \in 1..MaxSep, tr \in 0..MaxTrailing}

----------------------------------------------------------------------------
(* The state machine. *)

Start(invocations) ==
    /\ pc = "invoked"
    /\ input \in invocations
    /\ output = NoOutput
    /\ inst = NoInst
    /\ text = NoText
    /\ cause = NoCause

Init == Start(Invocations)

SyntaxInit == Start(SyntaxInvocations)

\* The macro is expanded and the emitted items are compiled.
Expand ==
    /\ pc = "invoked"
    /\ pc' = "generated"
    /\ output' = Generate(input)
    /\ UNCHANGED <<input, inst, text, cause>>

\* E::V { field: value, ... } with type arguments for the generics.
Construct ==
    /\ pc = "generated"
    /\ output.ok
    /\ inst = NoInst
    /\ \E i \in 1..Len(output.variants) :
       \E targs \in [1..Cardinality(TypeParams(output)) -> TypeArgs] :
          LET tys == InstTypes(output, i, targs)
          IN  \E vals \in Product([k \in 1..Len(tys) |-> ValuesOf(tys[k])]) :
                 inst' = [variant |-> i, targs |-> targs, vals |-> vals,
                          types |-> tys, via |-> "literal"]
    /\ UNCHANGED <<pc, input, output, text, cause>>

\* E::from(v) for a generated impl From.
ConvertFrom ==
    /\ pc = "generated"
    /\ output.ok
    /\ inst = NoInst
    /\ \E k \in 1..Len(output.from_impls) :
       \E v \in ValuesOf(output.from_impls[k].from) :
          inst' = from(output, k, v)
    /\ UNCHANGED <<pc, input, output, text, cause>>

\* inst.to_string()
Render ==
    /\ inst # NoInst
    /\ text' = [some |-> TRUE, s |-> fmt(output, inst)]
    /\ UNCHANGED <<pc, input, output, inst, cause>>

\* inst.source()
QuerySource ==
    /\ inst # NoInst
    /\ cause' = source(output, inst)
    /\ UNCHANGED <<pc, input, output, inst, text>>

Next == Expand \/ Construct \/ ConvertFrom \/ Render \/ QuerySource

Spec == Init /\ [][Next]_vars

SyntaxSpec == SyntaxInit /\ [][Next]_vars

----------------------------------------------------------------------------
(* The declaration as the user wrote it, and what the specification calls  *)
(* a well-formed one.                                                      *)

IsClause(t) == t.t = "clause"
IsParamList(t) == t.t = "params"

\* The variant clauses of the invocation, in order.
Declared == SelectSeq(input, IsClause)

\* The declared generic parameters.
DeclaredParams ==
    LET ps == SelectSeq(input, IsParamList)
    IN  IF ps = <<>> THEN {} ELSE {ps[1].params[k] : k \in 1..Len(ps[1].params)}

Names(c) == {c.fields[k].name : k \in 1..Len(c.fields)}
Placeholders(c) == {c.msg[k].name : k \in {j \in 1..Len(c.msg) : c.msg[j].kind = "arg"}}

HasSource(c) == "source" \in Names(c)
SoleSource(c) == Len(c.fields) = 1 /\ c.fields[1].name = "source"

\* Variants separated by single commas, none trailing.
PlainList(toks) ==
    LET b == ParamsEnd(toks, PrefixEnd(toks, 1) + 1)
    IN  /\ b <= Len(toks)
        /\ (Len(toks) - b) % 2 = 0
        /\ \A j \in b..Len(toks) :
              toks[j].t = (IF (j - b) % 2 = 0 THEN "clause" ELSE "comma")

UnknownPlaceholder == \E i \in 1..Len(Declared) :
                         ~(Placeholders(Declared[i]) \subseteq Names(Declared[i]))

\* Two variants whose only field is a `source` of one type.
AmbiguousCause ==
    \E i, j \in 1..Len(Declared) :
       /\ i # j
       /\ SoleSource(Declared[i]) /\ SoleSource(Declared[j])
       /\ Declared[i].fields[1].type = Declared[j].fields[1].type

\* At least one variant, placeholders name declared fields, field types exist,
\* every `source` is an error.
WellFormed ==
    /\ Len(Declared) >= 1
    /\ ~UnknownPlaceholder
    /\ \A i \in 1..Len(Declared) : \A k \in 1..Len(Declared[i].fields) :
          LET f == Declared[i].fields[k]
          IN  /\ f.type \in ConcreteTypes \cup DeclaredParams
              /\ f.name = "source" => f.type \in ErrorTypes

ParamsAllUsed ==
    \A tp \in DeclaredParams :
       \E i \in 1..Len(Declared) : \E k \in 1..Len(Declared[i].fields) :
          Declared[i].fields[k].type = tp

\* The text of field n of instance x of the declared variant c.
FieldText(c, x, n) ==
    LET k == CHOOSE k \in 1..Len(c.fields) : c.fields[k].name = n
    IN  to_string(x.types[k], x.vals[k])

\* The template of c with every {name} replaced by the text of field name.
Substituted(c, x) ==
    Flatten([k \in 1..Len(c.msg) |->
                IF c.msg[k].kind = "lit" THEN c.msg[k].s
                ELSE FieldText(c, x, c.msg[k].name)])

RECURSIVE SubstitutedLen(_, _, _)
SubstitutedLen(c, x, k) ==
    IF k > Len(c.msg) THEN 0
    ELSE (IF c.msg[k].kind = "lit" THEN Len(c.msg[k].s)
          ELSE Len(FieldText(c, x, c.msg[k].name)))
         + SubstitutedLen(c, x, k + 1)

Generated == pc = "generated"

----------------------------------------------------------------------------
(* Claims. *)

\* C1: a rendered instance is its variant's template with each {name}
\* replaced by the to_string() of the field of that name, whatever the
\* declaration order, and rendering it again gives the same text.
C1_RenderByName ==
    text.some =>
        /\ text.s = Substituted(Declared[inst.variant], inst)
        /\ fmt(output, inst) = text.s

\* C1 witness: a three-field variant whose template names the fields in the
\* reverse of their declaration order, rendered with a = 1, b = 2, c = 255.
C1_Witness ==
    /\ text.some
    /\ Len(inst.vals) = 3
    /\ inst.vals[1] = 1 /\ inst.vals[2] = 2 /\ inst.vals[3] = U8Max
    /\ text.s = <<"2", "5", "5", " ", "2", " ", "1">>

\* C2: source() returns Some(value of the field named source) exactly when
\* the variant declares that field, at any position; None otherwise; and the
\* returned cause has the text of the wrapped value.
C2_SourceIffDeclared ==
    cause.queried =>
        LET c == Declared[inst.variant]
        IN  /\ cause.some <=> HasSource(c)
            /\ HasSource(c) =>
                 LET k == CHOOSE k \in 1..Len(c.fields) : c.fields[k].name = "source"
                 IN  /\ cause.v = inst.vals[k]
                     /\ to_string(cause.ty, cause.v) = FieldText(c, inst, "source")

\* C2 witness: the cause of a variant whose source is its second field.
C2_Witness ==
    /\ cause.queried /\ cause.some
    /\ Len(Declared[inst.variant].fields) = 2
    /\ Declared[inst.variant].fields[2].name = "source"
    /\ cause.v = "AlreadyExists"

\* The emitted impls From whose target is the variant named n.
ImplsFor(n) == {k \in 1..Len(output.from_impls) : output.from_impls[k].variant = n}

\* The emitted impls From for cause type ty.
ImplsFrom(ty) == {k \in 1..Len(output.from_impls) : output.from_impls[k].from = ty}

\* C3 (as claimed): for a well-formed declaration, with or without generic
\* parameters, each variant that alone has a sole `source` field of its type
\* gets a wrapping constructor on a generated type, and an instance made by
\* it renders the variant's message and returns the wrapped cause.
C3_Original ==
    (Generated /\ output.parsed /\ WellFormed /\ ParamsAllUsed /\ ~AmbiguousCause) =>
        /\ \A i \in 1..Len(Declared) :
              SoleSource(Declared[i]) =>
                 /\ output.ok
                 /\ \E k \in ImplsFor(Declared[i].name) :
                       output.from_impls[k].from = Declared[i].fields[1].type
        /\ (inst.via = "from" /\ text.some) =>
              text.s = Substituted(Declared[inst.variant], inst)
        /\ (inst.via = "from" /\ cause.queried) =>
              cause.some /\ cause.v = inst.vals[1]

\* C4 (as claimed): two variants with a sole `source` field of one type do
\* not abort generation, and no wrapping constructor is emitted for the type.
C4_Original ==
    (Generated /\ output.parsed /\ WellFormed /\ DeclaredParams = {} /\ AmbiguousCause) =>
        /\ output.ok
        /\ \A i \in 1..Len(Declared) :
              SoleSource(Declared[i]) =>
                 Cardinality(ImplsFrom(Declared[i].fields[1].type)) <= 1

\* C4 (amended): two variants with a sole `source` field of one type get one
\* wrapping constructor each, the type is not generated and has no instance;
\* a generated type never has two wrapping constructors for one cause type.
C4_AmbiguousRejected ==
    Generated =>
        /\ (output.parsed /\ AmbiguousCause) =>
              /\ \E a, b \in 1..Len(output.from_impls) :
                    a # b /\ output.from_impls[a].from = output.from_impls[b].from
              /\ ~output.ok
              /\ inst = NoInst
        /\ output.ok =>
              \A ty \in ErrorTypes : Cardinality(ImplsFrom(ty)) <= 1

\* C4 witness: an otherwise well-formed, non-generic declaration of two
\* variants with a sole io::Error source each, rejected.
C4_Witness ==
    /\ Generated /\ output.parsed /\ ~output.ok
    /\ WellFormed /\ DeclaredParams = {} /\ AmbiguousCause
    /\ Len(output.from_impls) = 2

\* C5: a wrapping constructor is emitted only for a variant whose field list
\* is exactly one field named source; a variant with source among other
\* fields has none, and source() still returns its source.
C5_ConversionOnlySoleSource ==
    (Generated /\ output.parsed) =>
        /\ \A i \in 1..Len(Declared) :
              ImplsFor(Declared[i].name) # {} => SoleSource(Declared[i])
        /\ (cause.queried /\ HasSource(Declared[inst.variant])
               /\ ~SoleSource(Declared[inst.variant])) =>
              /\ ImplsFor(Declared[inst.variant].name) = {}
              /\ cause.some
              /\ to_string(cause.ty, cause.v)
                    = FieldText(Declared[inst.variant], inst, "source")

\* C5 witness: a generated type with one wrapping constructor, and the cause
\* of an instance of its other variant, which declares source first of two.
C5_Witness ==
    /\ output.ok /\ Len(output.from_impls) = 1
    /\ cause.queried /\ cause.some
    /\ Len(Declared[inst.variant].fields) = 2
    /\ Declared[inst.variant].fields[1].name = "source"

\* C6: a template placeholder that names no field of its own variant (be it
\* a field of another variant) makes generation fail: no type, no instance,
\* no rendering.
C6_UnknownPlaceholderRejected ==
    (Generated /\ output.parsed /\ UnknownPlaceholder) =>
        ~output.ok /\ inst = NoInst /\ ~text.some

\* C6 witness: variant A with template "{x}" and no field, variant B with
\* field x, nothing else wrong; rejected.
C6_Witness ==
    /\ Generated /\ output.parsed /\ ~output.ok
    /\ DeclaredParams = {}
    /\ Len(Declared) = 2
    /\ Declared[1].fields = <<>> /\ Declared[1].msg = <<Arg("x")>>
    /\ Declared[2].fields = <<Field("x", "u8")>>
    /\ Placeholders(Declared[2]) \subseteq Names(Declared[2])

\* C7 (as claimed): a well-formed declaration with generic parameters is
\* generated, also when some variant uses none of them, and a zero-field
\* variant renders its literal template.
C7_Original ==
    (Generated /\ output.parsed /\ DeclaredParams # {} /\ WellFormed
        /\ ParamsAllUsed /\ ~AmbiguousCause) =>
        /\ output.ok
        /\ (text.some /\ Declared[inst.variant].fields = <<>>) =>
              text.s = Flatten([k \in 1..Len(Declared[inst.variant].msg) |->
                                   Declared[inst.variant].msg[k].s])

\* C8: a variant list followed by one trailing comma generates what the list
\* alone generates, with one case per declared variant, in order.
C8_TrailingComma ==
    (Generated /\ Len(input) > 1 /\ input[Len(input)].t = "comma"
        /\ PlainList(SubSeq(input, 1, Len(input) - 1))) =>
        /\ output.parsed
        /\ output = Generate(SubSeq(input, 1, Len(input) - 1))
        /\ Len(output.variants) = Len(Declared)
        /\ \A i \in 1..Len(Declared) :
              /\ output.variants[i].name = Declared[i].name
              /\ output.variants[i].fields = Declared[i].fields
        /\ text.some =>
              text.s = fmt(Generate(SubSeq(input, 1, Len(input) - 1)), inst)

\* C8 witness: two variants and a trailing comma, generated and rendered.
C8_Witness ==
    /\ Generated /\ output.ok /\ text.some
    /\ input[Len(input)].t = "comma"
    /\ PlainList(SubSeq(input, 1, Len(input) - 1))
    /\ Len(output.variants) = 2

\* C9: with the pub marker the output is the output of the same declaration
\* without it, made public, and nothing else differs.
C9_PubOnlyVisibility ==
    (Generated /\ input # <<>> /\ input[1].t = "pub") =>
        LET o == Generate(Tail(input))
        IN  /\ output.parsed = o.parsed
            /\ o.parsed =>
                 /\ o.vis = <<>>
                 /\ output.vis = <<"pub">>
                 /\ output = [o EXCEPT !.vis = <<"pub">>]
            /\ text.some => text.s = fmt(o, inst)
            /\ cause.queried => cause = source(o, inst)

\* C9 witness: a public type, generated, rendered and asked for its cause.
C9_Witness ==
    /\ Generated /\ input[1].t = "pub" /\ output.ok /\ output.vis = <<"pub">>
    /\ text.some /\ cause.queried /\ cause.some
    /\ Len(output.from_impls) = 1

\* The fields of c that its template does not reference.
Unreferenced(c) == {k \in 1..Len(c.fields) : c.fields[k].name \notin Placeholders(c)}

\* C10: a declared field the template does not reference adds no character
\* to the text, whatever its value, and a referenced field is written in
\* full: the text has the length of the substituted template and does not
\* change with the unreferenced field's value.
C10_UnreferencedSilent ==
    text.some =>
        LET c == Declared[inst.variant]
        IN  /\ Len(text.s) = SubstitutedLen(c, inst, 1)
            /\ \A k \in Unreferenced(c) : \A v \in ValuesOf(inst.types[k]) :
                  fmt(output, [inst EXCEPT !.vals[k] = v]) = text.s
            /\ \A k \in 1..Len(c.msg) :
                  c.msg[k].kind = "arg" /\ k = Len(c.msg) =>
                     LET t == FieldText(c, inst, c.msg[k].name)
                     IN  SubSeq(text.s, Len(text.s) - Len(t) + 1, Len(text.s)) = t

\* C10 witness: variant {x, source} with template "{x}", rendered as the
\* three digits of x although source has a non-empty text.
C10_Witness ==
    /\ text.some
    /\ Unreferenced(Declared[inst.variant]) = {2}
    /\ Len(FieldText(Declared[inst.variant], inst, "source")) > 0
    /\ text.s = <<"2", "5", "5">>

====
